---- MODULE Spec2Model ----
(***************************************************************************)
(* TTLDictionary (src/ttl_dictionary.py): a dict guarded by one RLock,     *)
(* a heapq list of (expiry_time, key) pairs, and a daemon thread that      *)
(* sweeps expired pairs.  Every public method runs its body under the      *)
(* lock, so Spec, SpecArgs and SpecLive take each call as one step (the    *)
(* linearized view); SpecThreads and SpecWorkers take the threads step by  *)
(* step: the call, the acquisition of the RLock, the nested acquisition    *)
(* inside _clean_expired_unsafe, and the locked section.                   *)
(***************************************************************************)
EXTENDS Integers, Sequences, FiniteSets, TLC

(***************************************************************************)
(* Bounds of the model.                                                    *)
(***************************************************************************)
NumKeys == 3
MaxTime == 2
MaxTtl == 1
MaxWrites == 5
MaxLiveWrites == 4
NumArgKeys == 2
MaxArgWrites == 2
NumWorkers == 2
MaxCycles == 2
MaxThreadCalls == 1
MaxKeyWrites == 3
NumZeroKeys == 4
MaxZeroWrites == 5
MaxZeroTime == 1

(***************************************************************************)
(* Python objects.  Values are opaque objects of any shape; what the code  *)
(* looks at is whether an object is a tuple, its length, and whether an    *)
(* element is None or a number.                                            *)
(***************************************************************************)
Str(s) == [tag |-> "str", s |-> s]
Num(n) == [tag |-> "int", n |-> n]
None == [tag |-> "NoneType"]
Tup(items) == [tag |-> "tuple", items |-> items]
Bool(b) == [tag |-> "bool", b |-> b]
\* A list a query returns, up to the order of its elements: the elements
\* with the number of times each occurs.
List(counts) == [tag |-> "list", counts |-> counts]

\* float("inf"): greater than every finite time of the model.
Inf == 1000

Keys == 1..NumKeys
\* A key of another type than the keys of Keys (a str among ints): hashable,
\* but not ordered relative to them.
OtherKey == 0
\* The keys of SpecZero.
ZeroKeys == 1..NumZeroKeys
AllKeys == Keys \cup ZeroKeys \cup {OtherKey}
KeyType(k) == IF k = OtherKey THEN "str" ELSE "int"


(***************************************************************************)
(* heapq on a list of (expiry_time, key) tuples.  Positions are Python's   *)
(* (0-based); heap[p + 1] is the element at position p.                    *)
(***************************************************************************)

\* a < b on (expiry_time, key) tuples: the first differing component
\* decides; keys of different types do not compare (TypeError).
TupleLt(a, b) ==
  IF a[1] # b[1] THEN (IF a[1] < b[1] THEN "lt" ELSE "ge")
  ELSE IF a[2] = b[2] THEN "ge"
  ELSE IF KeyType(a[2]) # KeyType(b[2]) THEN "TypeError"
  ELSE IF a[2] < b[2] THEN "lt" ELSE "ge"

Swap(heap, p, q) ==
  [i \in 1..Len(heap) |-> IF i = p + 1 THEN heap[q + 1]
                          ELSE IF i = q + 1 THEN heap[p + 1]
                          ELSE heap[i]]

\* heapq._siftdown(heap, 0, pos): move the item at pos up while it is
\* smaller than its parent.
RECURSIVE siftdown(_, _)
siftdown(heap, pos) ==
  IF pos = 0 THEN [heap |-> heap, err |-> FALSE]
  ELSE LET parentpos == (pos - 1) \div 2
           c == TupleLt(heap[pos + 1], heap[parentpos + 1])
       IN IF c = "TypeError" THEN [heap |-> heap, err |-> TRUE]
          ELSE IF c = "lt" THEN siftdown(Swap(heap, pos, parentpos), parentpos)
          ELSE [heap |-> heap, err |-> FALSE]

\* heapq._siftup(heap, 0): bubble the smaller child up until a leaf, then
\* sift the moved item down from there.
RECURSIVE siftup(_, _)
siftup(heap, pos) ==
  LET endpos == Len(heap)
      childpos == 2 * pos + 1
      rightpos == childpos + 1
  IN IF childpos >= endpos THEN siftdown(heap, pos)
     ELSE LET c == IF rightpos < endpos
                   THEN TupleLt(heap[childpos + 1], heap[rightpos + 1])
                   ELSE "lt"
          IN IF c = "TypeError" THEN [heap |-> heap, err |-> TRUE]
             ELSE LET child == IF c = "lt" THEN childpos ELSE rightpos
                  IN siftup(Swap(heap, pos, child), child)

\* heapq.heappush(heap, item)
heappush(heap, item) == siftdown(Append(heap, item), Len(heap))

\* heapq.heappop(heap) on a non-empty list: the last element replaces the
\* first, which is returned.
heappop(heap) ==
  LET lastelt == heap[Len(heap)]
      rest == SubSeq(heap, 1, Len(heap) - 1)
  IN IF rest = <<>> THEN [heap |-> rest, item |-> lastelt, err |-> FALSE]
     ELSE LET r == siftup([rest EXCEPT ![1] = lastelt], 0)
          IN [heap |-> r.heap, item |-> heap[1], err |-> r.err]


\* As WithoutKey, the pairs of the key left in the list.
WithoutKey_KeepAll(heap, key) == heap

\* [(expiry_time, k) for expiry_time, k in self.expiry_times if k != key]:
\* the pairs of the other keys, in the order they had in the list.
WithoutKey(heap, key) == SelectSeq(heap, LAMBDA p: p[2] # key)

DelKey(d, key) == [k \in DOMAIN d \ {key} |-> d[k]]
PutKey(d, key, value) ==
  [k \in DOMAIN d \cup {key} |-> IF k = key THEN value ELSE d[k]]

\* As clean_expired, the test of the expiry time against now dropped.
RECURSIVE clean_expired_any(_, _, _)
clean_expired_any(d, heap, t) ==
  IF heap # <<>>
  THEN CHOOSE s \in
         {IF r.err THEN [data |-> d, heap |-> r.heap, err |-> TRUE]
          ELSE clean_expired_any(DelKey(d, r.item[2]), r.heap, t) :
            r \in {heappop(heap)}} : TRUE
  ELSE [data |-> d, heap |-> heap, err |-> FALSE]

\* The while loop of _clean_expired_unsafe with now = t: pop while the first
\* pair's expiry_time is <= t, deleting the popped key from the dict when it
\* is there.  A TypeError raised inside heappop ends the loop.  (r is the
\* result of the one heappop of this round.)
RECURSIVE clean_expired(_, _, _)
clean_expired(d, heap, t) ==
  IF heap # <<>> /\ heap[1][1] <= t
  THEN CHOOSE s \in
         {IF r.err THEN [data |-> d, heap |-> r.heap, err |-> TRUE]
          ELSE clean_expired(DelKey(d, r.item[2]), r.heap, t) :
            r \in {heappop(heap)}} : TRUE
  ELSE [data |-> d, heap |-> heap, err |-> FALSE]

\* The first lines of __setitem__, before the lock is taken: what the
\* argument is taken to be, with the time read as t.
ParseValueAndTtl(value_and_ttl, t) ==
  IF value_and_ttl.tag = "tuple"
  THEN IF Len(value_and_ttl.items) # 2
       THEN [outcome |-> "ValueError"]
       ELSE LET value == value_and_ttl.items[1]
                ttl_seconds == value_and_ttl.items[2]
            IN IF ttl_seconds.tag = "NoneType"
               THEN [outcome |-> "ok", value |-> value, expiry_time |-> Inf]
               ELSE IF ttl_seconds.tag = "int"
               THEN [outcome |-> "ok", value |-> value,
                     expiry_time |-> t + ttl_seconds.n]
               ELSE [outcome |-> "TypeError"]
  ELSE [outcome |-> "ok", value |-> value_and_ttl, expiry_time |-> Inf]

(***************************************************************************)
(* Threads: the daemon thread and the threads calling the public methods.  *)
(***************************************************************************)
Reaper == 0
Workers == 1..NumWorkers
Threads == {Reaper} \cup Workers

\* What callers store: strings, and tuples (a tuple of a string and a
\* number, and a tuple of one element).
Strings == {Str("value1"), Str("value2")}
Tuples == {Tup(<<Str("value2"), Num(1)>>), Tup(<<Str("value1")>>)}
Defaults == {None, Str("default")}

VARIABLES
  data,          \* self.data
  expiry_times,  \* self.expiry_times
  lock,          \* self.lock: the owning thread and the recursion level
  stop_thread,   \* self._stop_thread
  now,           \* time.time()
  pc,            \* where each thread is
  call,          \* the call each thread is in
  ret,           \* what each thread's last completed call returned or raised
  w,             \* history: per key, the last set or delete that took effect
  reaped,        \* history: keys removed by a sweep since their last write
  swept,         \* history: a sweep has completed and nothing has run since
  nwrites,       \* number of sets and deletes made so far
  prog           \* the worker program: the next statement of each worker

vars == <<data, expiry_times, lock, stop_thread, now, pc, call, ret, w,
          reaped, swept, nwrites, prog>>

NoCall == [name |-> "none"]
NoRet == [name |-> "none", outcome |-> "ok"]
NoWrite == [kind |-> "never"]
Deleted == [kind |-> "deleted"]
Free == [owner |-> -1, count |-> 0]
Idle == [step |-> "idle", i |-> 0, keys |-> "none", read |-> "none"]

Init ==
  /\ data = <<>>
  /\ expiry_times = <<>>
  /\ lock = Free
  /\ stop_thread = FALSE
  /\ now = 0
  /\ pc = [t \in Threads |-> IF t = Reaper THEN "loop" ELSE "idle"]
  /\ call = [t \in Threads |-> NoCall]
  /\ ret = [t \in Threads |-> NoRet]
  /\ w = [k \in AllKeys |-> NoWrite]
  /\ reaped = {}
  /\ swept = FALSE
  /\ nwrites = 0
  /\ prog = [t \in Workers |-> Idle]

(***************************************************************************)
(* threading.RLock                                                         *)
(***************************************************************************)
\* A lock that is not reentrant: threading.Lock.
CanAcquire_Lock(t) == lock.owner = -1
CanAcquire(t) == lock.owner = -1 \/ lock.owner = t
Acquired(t) == [owner |-> t, count |-> lock.count + 1]
\* Leaving the with blocks a thread is in: every level it holds is released.
Released == Free


dictVars == <<data, expiry_times>>
histVars == <<w, reaped>>
threadVars == <<lock, pc, call>>

\* Number of keys written, not deleted, and not removed by a sweep since.
LiveCount == Cardinality({k \in AllKeys : w[k].kind = "set" /\ k \notin reaped})

\* What a call c leaves for its caller: the value returned or the exception
\* raised, with the time it ran at (and, for the history, the number of
\* live keys then).
Returned(c, value) ==
  [name |-> c.name, key |-> c.key, outcome |-> "ok", value |-> value,
   at |-> now, live |-> LiveCount]
Raised(c, error) ==
  [name |-> c.name, key |-> c.key, outcome |-> error, value |-> None,
   at |-> now, live |-> LiveCount]

(***************************************************************************)
(* The bodies of the public methods, as they run under the lock.           *)
(***************************************************************************)

\* d[key] = V (form "bare") or d[key] = (V, ttl) (form "pair"), the time
\* read as t: the call __setitem__ makes of it (lines 70-78, which run
\* before the lock is taken), or the exception it raises.
SetCall(key, V, ttl, form, t) ==
  LET p == ParseValueAndTtl(IF form = "bare" THEN V ELSE Tup(<<V, ttl>>), t)
  IN IF p.outcome = "ok"
     THEN [name |-> "set", key |-> key, outcome |-> "ok", value |-> p.value,
           expiry_time |-> p.expiry_time,
           intent |-> [value |-> V, form |-> form,
                       deadline |-> IF ttl = None THEN Inf ELSE t + ttl.n]]
     ELSE [name |-> "set", key |-> key, outcome |-> p.outcome]

\* The history of a key after the set c: what the caller asked for (value,
\* deadline), what the code made of it (expiry_time), and whether the key
\* was written for the first time ("first"), over an entry that had not
\* reached its deadline ("live"), or after its expiry or deletion ("dead").
Written(c) ==
  [kind |-> "set", value |-> c.intent.value, form |-> c.intent.form,
   deadline |-> c.intent.deadline, expiry_time |-> c.expiry_time,
   over |-> IF w[c.key].kind = "never" THEN "first"
            ELSE IF w[c.key].kind = "set" /\ now < w[c.key].deadline
            THEN "live" ELSE "dead"]

\* __setitem__, lines 80-87
SetItemEffect(c, t) ==
  LET kept == IF c.key \in DOMAIN data
              THEN WithoutKey(expiry_times, c.key) ELSE expiry_times
      r == heappush(kept, <<c.expiry_time, c.key>>)
  IN /\ data' = PutKey(data, c.key, c.value)
     /\ expiry_times' = r.heap
     /\ ret' = [ret EXCEPT ![t] =
                  IF r.err THEN Raised(c, "TypeError") ELSE Returned(c, None)]
     /\ w' = [w EXCEPT ![c.key] = Written(c)]
     /\ reaped' = reaped \ {c.key}
     /\ swept' = FALSE

\* What a sweep at the current time leaves, and the history it makes.
Swept == clean_expired(data, expiry_times, now)
SweepEffect ==
  /\ data' = Swept.data
  /\ expiry_times' = Swept.heap
  /\ reaped' = reaped \cup (DOMAIN data \ DOMAIN Swept.data)
  /\ swept' = ~Swept.err
  /\ UNCHANGED w

\* __getitem__
GetItemEffect(c, t) ==
  /\ SweepEffect
  /\ ret' = [ret EXCEPT ![t] =
               IF Swept.err THEN Raised(c, "TypeError")
               ELSE IF c.key \in DOMAIN Swept.data
               THEN Returned(c, Swept.data[c.key])
               ELSE Raised(c, "KeyError")]

\* As GetEffect, the default returned for a key in the store too.
GetEffect_Default(c, t) ==
  /\ SweepEffect
  /\ ret' = [ret EXCEPT ![t] =
               IF Swept.err THEN Raised(c, "TypeError")
               ELSE Returned(c, c.default)]

\* get(key, default)
GetEffect(c, t) ==
  /\ SweepEffect
  /\ ret' = [ret EXCEPT ![t] =
               IF Swept.err THEN Raised(c, "TypeError")
               ELSE IF c.key \in DOMAIN Swept.data
               THEN Returned(c, Swept.data[c.key])
               ELSE Returned(c, c.default)]

\* As DelItemEffect, the pairs of the key left in the list.
DelItemEffect_KeepPairs(c, t) ==
  IF c.key \in DOMAIN data
  THEN /\ data' = DelKey(data, c.key)
       /\ ret' = [ret EXCEPT ![t] = Returned(c, None)]
       /\ w' = [w EXCEPT ![c.key] = Deleted]
       /\ swept' = FALSE
       /\ UNCHANGED <<reaped, expiry_times>>
  ELSE /\ ret' = [ret EXCEPT ![t] = Raised(c, "KeyError")]
       /\ swept' = FALSE
       /\ UNCHANGED <<dictVars, histVars>>

\* __delitem__
DelItemEffect(c, t) ==
  IF c.key \in DOMAIN data
  THEN /\ data' = DelKey(data, c.key)
       /\ expiry_times' = WithoutKey(expiry_times, c.key)
       /\ ret' = [ret EXCEPT ![t] = Returned(c, None)]
       /\ w' = [w EXCEPT ![c.key] = Deleted]
       /\ swept' = FALSE
       /\ UNCHANGED reaped
  ELSE /\ ret' = [ret EXCEPT ![t] = Raised(c, "KeyError")]
       /\ swept' = FALSE
       /\ UNCHANGED <<dictVars, histVars>>

\* __contains__, __len__, keys, values, items: answered from self.data
Answer(c) ==
  CASE c.name = "contains" -> Bool(c.key \in DOMAIN data)
    [] c.name = "len" -> Num(Cardinality(DOMAIN data))
    [] c.name = "keys" -> List([k \in DOMAIN data |-> 1])
    [] c.name = "values" ->
         List([v \in {data[k] : k \in DOMAIN data} |->
                 Cardinality({k \in DOMAIN data : data[k] = v})])
    [] c.name = "items" ->
         List([kv \in {<<k, data[k]>> : k \in DOMAIN data} |-> 1])

\* As QueryEffect, after a sweep.
QueryEffect_Sweep(c, t) ==
  /\ SweepEffect
  /\ ret' = [ret EXCEPT ![t] =
               IF Swept.err THEN Raised(c, "TypeError")
               ELSE LET d == Swept.data
                    IN Returned(c,
                         CASE c.name = "contains" -> Bool(c.key \in DOMAIN d)
                           [] c.name = "len" -> Num(Cardinality(DOMAIN d))
                           [] c.name = "keys" -> List([k \in DOMAIN d |-> 1])
                           [] c.name = "values" ->
                                List([v \in {d[k] : k \in DOMAIN d} |->
                                        Cardinality({k \in DOMAIN d : d[k] = v})])
                           [] c.name = "items" ->
                                List([kv \in {<<k, d[k]>> : k \in DOMAIN d} |-> 1]))]

QueryEffect(c, t) ==
  /\ ret' = [ret EXCEPT ![t] = Returned(c, Answer(c))]
  /\ UNCHANGED <<dictVars, histVars, swept>>

GetItemCall(key) == [name |-> "getitem", key |-> key]
DelItemCall(key) == [name |-> "delitem", key |-> key]
ContainsCall(key) == [name |-> "contains", key |-> key]
GetCall(key, default) == [name |-> "get", key |-> key, default |-> default]
\* len(d), d.keys(), d.values(), d.items(): no key
QueryCall(name) == [name |-> name, key |-> OtherKey]

\* Time passes.
Tick ==
  /\ now < MaxTime
  /\ now' = now + 1
  /\ swept' = FALSE
  /\ UNCHANGED <<dictVars, histVars, threadVars, stop_thread, ret, nwrites, prog>>

(***************************************************************************)
(* The linearized view: one caller, each public call one step, taken when  *)
(* the lock can be had and its locked section runs.                        *)
(***************************************************************************)
Caller == 1

SetItem(key, V, ttl, form) ==
  /\ CanAcquire(Caller)
  /\ ttl # None => now + ttl.n <= MaxTime
  /\ LET c == SetCall(key, V, ttl, form, now)
     IN IF c.outcome = "ok"
        THEN SetItemEffect(c, Caller)
        ELSE /\ ret' = [ret EXCEPT ![Caller] = Raised(c, c.outcome)]
             /\ swept' = FALSE
             /\ UNCHANGED <<dictVars, histVars>>
  /\ nwrites' = nwrites + 1
  /\ UNCHANGED <<threadVars, stop_thread, now, prog>>

DelItem(key) ==
  /\ CanAcquire(Caller)
  /\ DelItemEffect(DelItemCall(key), Caller)
  /\ nwrites' = nwrites + 1
  /\ UNCHANGED <<threadVars, stop_thread, now, prog>>

GetItem(key) ==
  /\ CanAcquire(Caller)
  /\ GetItemEffect(GetItemCall(key), Caller)
  /\ UNCHANGED <<threadVars, stop_thread, now, prog, nwrites>>

Get(key, default) ==
  /\ CanAcquire(Caller)
  /\ GetEffect(GetCall(key, default), Caller)
  /\ UNCHANGED <<threadVars, stop_thread, now, prog, nwrites>>

Contains(key) ==
  /\ CanAcquire(Caller)
  /\ QueryEffect(ContainsCall(key), Caller)
  /\ UNCHANGED <<threadVars, stop_thread, now, prog, nwrites>>

Query(name) ==
  /\ CanAcquire(Caller)
  /\ QueryEffect(QueryCall(name), Caller)
  /\ UNCHANGED <<threadVars, stop_thread, now, prog, nwrites>>

\* One round of the daemon's loop: the sweep under the lock.
ReaperSweep ==
  /\ ~stop_thread
  /\ CanAcquire(Reaper)
  /\ SweepEffect
  /\ UNCHANGED <<threadVars, stop_thread, now, ret, nwrites, prog>>

(***************************************************************************)
(* Spec: keys and deadlines.  The caller stores strings, with no TTL       *)
(* (d[key] = V) or with a TTL of 1..MaxTtl (d[key] = (V, ttl)), reads and  *)
(* deletes any key and asks for the length.  Strings are opaque to the     *)
(* code; the caller writes to a key a string other than the one it wrote   *)
(* there last, so that every overwrite shows.                              *)
(***************************************************************************)
Fresh(key) ==
  IF w[key].kind = "set" /\ w[key].value = Str("value1")
  THEN Str("value2") ELSE Str("value1")

Next ==
  \/ /\ nwrites < MaxWrites
     /\ \E key \in Keys : SetItem(key, Fresh(key), None, "bare")
  \/ /\ nwrites < MaxWrites
     /\ \E key \in Keys, n \in 1..MaxTtl : SetItem(key, Fresh(key), Num(n), "pair")
  \/ /\ nwrites < MaxWrites
     /\ \E key \in Keys : DelItem(key)
  \/ \E key \in Keys : GetItem(key)
  \/ Query("len")
  \/ ReaperSweep
  \/ Tick

Spec == Init /\ [][Next]_vars


(***************************************************************************)
(* SpecArgs: what __setitem__ makes of its argument.  The caller stores    *)
(* strings and tuples, with the TTL left out, None or 0..MaxTtl, and calls *)
(* every public method.                                                    *)
(***************************************************************************)
ArgKeys == 1..NumArgKeys
TtlArgs == {None} \cup {Num(n) : n \in 0..MaxTtl}

NextArgs ==
  \/ /\ nwrites < MaxArgWrites
     /\ \E key \in ArgKeys, V \in Strings \cup Tuples :
          SetItem(key, V, None, "bare")
  \/ /\ nwrites < MaxArgWrites
     /\ \E key \in ArgKeys, V \in Strings \cup Tuples, ttl \in TtlArgs :
          SetItem(key, V, ttl, "pair")
  \/ /\ nwrites < MaxArgWrites
     /\ \E key \in ArgKeys : DelItem(key)
  \/ \E key \in ArgKeys : GetItem(key)
  \/ \E key \in ArgKeys, default \in Defaults : Get(key, default)
  \/ \E key \in ArgKeys : Contains(key)
  \/ \E name \in {"len", "keys", "values", "items"} : Query(name)
  \/ ReaperSweep
  \/ Tick

SpecArgs == Init /\ [][NextArgs]_vars

(***************************************************************************)
(* The threads, step by step.                                              *)
(***************************************************************************)

\* A thread enters __setitem__: lines 70-78 run, and raise or go on to the
\* lock.
SetBegin(t, key, V, ttl, form) ==
  /\ pc[t] = "idle"
  /\ LET c == SetCall(key, V, ttl, form, now)
     IN IF c.outcome = "ok"
        THEN /\ pc' = [pc EXCEPT ![t] = "acquire"]
             /\ call' = [call EXCEPT ![t] = c]
             /\ ret' = [ret EXCEPT ![t] = NoRet]
        ELSE /\ ret' = [ret EXCEPT ![t] = Raised(c, c.outcome)]
             /\ UNCHANGED <<pc, call>>
  /\ UNCHANGED <<dictVars, histVars, swept, lock, stop_thread, now, nwrites>>

\* A thread enters another public method: the lock comes first.
Begin(t, c) ==
  /\ pc[t] = "idle"
  /\ pc' = [pc EXCEPT ![t] = "acquire"]
  /\ call' = [call EXCEPT ![t] = c]
  /\ ret' = [ret EXCEPT ![t] = NoRet]
  /\ UNCHANGED <<dictVars, histVars, swept, lock, stop_thread, now, nwrites>>

\* The threads that go through _clean_expired_unsafe, which takes the lock
\* again.
Sweeps(t) == t = Reaper \/ call[t].name \in {"getitem", "get"}

\* with self.lock: of a public method or of the daemon's loop
Acquire(t) ==
  /\ pc[t] = "acquire"
  /\ CanAcquire(t)
  /\ lock' = Acquired(t)
  /\ pc' = [pc EXCEPT ![t] = IF Sweeps(t) THEN "clean" ELSE "locked"]
  /\ UNCHANGED <<dictVars, histVars, swept, stop_thread, now, call, ret,
                 nwrites, prog>>

\* with self.lock: of _clean_expired_unsafe
AcquireNested(t) ==
  /\ pc[t] = "clean"
  /\ CanAcquire(t)
  /\ lock' = Acquired(t)
  /\ pc' = [pc EXCEPT ![t] = "locked"]
  /\ UNCHANGED <<dictVars, histVars, swept, stop_thread, now, call, ret,
                 nwrites, prog>>

\* The locked section of a public method, to the end of its with blocks.
\* Nothing else runs while the lock is held, so it is one step.
Locked(t) ==
  /\ pc[t] = "locked"
  /\ lock.owner = t
  /\ CASE call[t].name = "set" -> SetItemEffect(call[t], t)
       [] call[t].name = "getitem" -> GetItemEffect(call[t], t)
       [] call[t].name = "get" -> GetEffect(call[t], t)
       [] call[t].name = "delitem" -> DelItemEffect(call[t], t)
       [] OTHER -> QueryEffect(call[t], t)
  /\ lock' = Released
  /\ pc' = [pc EXCEPT ![t] = "idle"]
  /\ call' = [call EXCEPT ![t] = NoCall]
  /\ UNCHANGED <<stop_thread, now, nwrites, prog>>

\* A loop that never reads the stop flag.
ReaperLoop_NoStop ==
  /\ pc[Reaper] = "loop"
  /\ pc' = [pc EXCEPT ![Reaper] = "acquire"]
  /\ UNCHANGED <<dictVars, histVars, swept, lock, stop_thread, now, call, ret,
                 nwrites, prog>>

\* _collect_expired: while not self._stop_thread
ReaperLoop ==
  /\ pc[Reaper] = "loop"
  /\ pc' = [pc EXCEPT ![Reaper] = IF stop_thread THEN "exit" ELSE "acquire"]
  /\ UNCHANGED <<dictVars, histVars, swept, lock, stop_thread, now, call, ret,
                 nwrites, prog>>

\* self._clean_expired_unsafe() under the lock; an exception ends the thread.
ReaperLocked ==
  /\ pc[Reaper] = "locked"
  /\ lock.owner = Reaper
  /\ SweepEffect
  /\ lock' = Released
  /\ pc' = [pc EXCEPT ![Reaper] = IF Swept.err THEN "dead" ELSE "sleep"]
  /\ UNCHANGED <<stop_thread, now, call, ret, nwrites, prog>>

\* time.sleep(self.daemon_sleep_time) returns
ReaperWake ==
  /\ pc[Reaper] = "sleep"
  /\ pc' = [pc EXCEPT ![Reaper] = "loop"]
  /\ UNCHANGED <<dictVars, histVars, swept, lock, stop_thread, now, call, ret,
                 nwrites, prog>>

ReaperThread ==
  \/ ReaperLoop
  \/ Acquire(Reaper)
  \/ AcquireNested(Reaper)
  \/ ReaperLocked
  \/ ReaperWake

(***************************************************************************)
(* SpecLive: no read traffic.  The caller sets and deletes (each call one  *)
(* step, as in Spec), the daemon thread runs step by step, time passes;    *)
(* time keeps advancing and the daemon keeps being scheduled.              *)
(***************************************************************************)
NextLive ==
  \/ /\ nwrites < MaxLiveWrites
     /\ \E key \in Keys : SetItem(key, Fresh(key), None, "bare")
  \/ /\ nwrites < MaxLiveWrites
     /\ \E key \in Keys, n \in 1..MaxTtl : SetItem(key, Fresh(key), Num(n), "pair")
  \/ /\ nwrites < MaxLiveWrites
     /\ \E key \in Keys : DelItem(key)
  \/ ReaperThread
  \/ Tick

SpecLive ==
  Init /\ [][NextLive]_vars /\ WF_vars(Tick) /\ WF_vars(ReaperThread)

(***************************************************************************)
(* SpecThreads: every worker thread makes up to MaxThreadCalls calls of    *)
(* any public method on one key, beside the daemon thread.                 *)
(***************************************************************************)
TheKey == 1

ThreadCall(t) ==
  /\ prog[t].i < MaxThreadCalls
  /\ prog' = [prog EXCEPT ![t].i = @ + 1]
  /\ \/ SetBegin(t, TheKey, Str("value1"), None, "bare")
     \/ SetBegin(t, TheKey, Str("value1"), Num(1), "pair")
     \/ Begin(t, GetItemCall(TheKey))
     \/ \E default \in Defaults : Begin(t, GetCall(TheKey, default))
     \/ Begin(t, DelItemCall(TheKey))
     \/ Begin(t, ContainsCall(TheKey))
     \/ \E name \in {"len", "keys", "values", "items"} : Begin(t, QueryCall(name))

WorkerThread(t) ==
  \/ Acquire(t)
  \/ AcquireNested(t)
  \/ Locked(t)

NextThreads ==
  \/ \E t \in Workers : ThreadCall(t)
  \/ \E t \in Workers : WorkerThread(t)
  \/ ReaperThread
  \/ Tick

SpecThreads == Init /\ [][NextThreads]_vars

\* Fair scheduling: a thread that can run does, and a thread waiting for the
\* lock gets it if the lock keeps becoming free.
SpecThreadsFair ==
  /\ SpecThreads
  /\ \A t \in Threads : SF_vars(Acquire(t))
  /\ \A t \in Threads : WF_vars(AcquireNested(t))
  /\ \A t \in Workers : WF_vars(Locked(t))
  /\ WF_vars(ReaperLoop) /\ WF_vars(ReaperLocked) /\ WF_vars(ReaperWake)

(***************************************************************************)
(* SpecWorkers: the worker threads of the concurrency tests, beside the    *)
(* daemon thread.  Each worker runs MaxCycles rounds of set, read, delete  *)
(* and stops at the first exception (the tests catch it and record it).    *)
(***************************************************************************)
TestTtl == 5

\* The tests: keys per round shared by the workers, one key for all, a key
\* per worker; the read by d[key], or by d.get(key, None) with the delete
\* only if it found the key.
Tests ==
  {[keys |-> "round", read |-> "getitem"],
   [keys |-> "shared", read |-> "getitem"],
   [keys |-> "own", read |-> "getitem"],
   [keys |-> "round", read |-> "get"]}

KeyOf(t) ==
  CASE prog[t].keys = "round" -> prog[t].i + 1
    [] prog[t].keys = "shared" -> 1
    [] prog[t].keys = "own" -> t

\* The TTL a worker writes with: 5 s, which outlasts the run, or i % 5.
TtlOf(t) == IF prog[t].read = "getitem" THEN TestTtl ELSE prog[t].i % 5

NextRound(p) ==
  IF p.i + 1 < MaxCycles
  THEN [p EXCEPT !.step = "set", !.i = @ + 1]
  ELSE [p EXCEPT !.step = "done"]

Running(t) == pc[t] = "idle" /\ ret[t].outcome = "ok"
Finished(t) ==
  pc[t] = "idle" /\ (prog[t].step = "done" \/ ret[t].outcome # "ok")
AllFinished == \A t \in Workers : Finished(t)

\* The test starts its threads.
Start ==
  /\ \A t \in Workers : prog[t].step = "idle"
  /\ \E test \in Tests :
       prog' = [t \in Workers |->
                  [step |-> "set", i |-> 0, keys |-> test.keys,
                   read |-> test.read]]
  /\ UNCHANGED <<dictVars, histVars, swept, threadVars, stop_thread, now, ret,
                 nwrites>>

\* ttl_dict[key] = ("value", ttl)
WorkerSet(t) ==
  /\ Running(t)
  /\ prog[t].step = "set"
  /\ SetBegin(t, KeyOf(t), Str("value"), Num(TtlOf(t)), "pair")
  /\ prog' = [prog EXCEPT ![t].step = "read"]

\* ttl_dict[key], or ttl_dict.get(key, None)
WorkerRead(t) ==
  /\ Running(t)
  /\ prog[t].step = "read"
  /\ IF prog[t].read = "getitem"
     THEN Begin(t, GetItemCall(KeyOf(t)))
     ELSE Begin(t, GetCall(KeyOf(t), None))
  /\ prog' = [prog EXCEPT ![t].step = "del"]

\* del ttl_dict[key]
WorkerDelete(t) ==
  /\ Running(t)
  /\ prog[t].step = "del"
  /\ prog[t].read = "get" => ret[t].value # None
  /\ Begin(t, DelItemCall(KeyOf(t)))
  /\ prog' = [prog EXCEPT ![t] = NextRound(@)]

\* if ttl_dict.get(key, None) is not None: not taken
WorkerSkip(t) ==
  /\ Running(t)
  /\ prog[t].step = "del"
  /\ prog[t].read = "get" /\ ret[t].value = None
  /\ prog' = [prog EXCEPT ![t] = NextRound(@)]
  /\ UNCHANGED <<dictVars, histVars, swept, threadVars, stop_thread, now, ret,
                 nwrites>>

NextWorkers ==
  \/ Start
  \/ \E t \in Workers : WorkerSet(t)
  \/ \E t \in Workers : WorkerRead(t)
  \/ \E t \in Workers : WorkerDelete(t)
  \/ \E t \in Workers : WorkerSkip(t)
  \/ \E t \in Workers : WorkerThread(t)
  \/ ReaperThread
  \/ Tick

SpecWorkers == Init /\ [][NextWorkers]_vars

(***************************************************************************)
(* Properties under Spec.  Last is what the caller's last call returned;   *)
(* no set or delete has run since, so w is the history that call saw.      *)
(***************************************************************************)
Last == ret[Caller]
HasPair(key) == \E i \in 1..Len(expiry_times) : expiry_times[i][2] = key
Unexpired == {k \in Keys : w[k].kind = "set" /\ w[k].deadline > now}

\* C1: a get(K) that runs at or after the deadline (write time + ttl) of the
\* most recent set(K, V, ttl) raises KeyError.
C1_ExpiredInvisible ==
  (/\ Last.name = "getitem"
   /\ w[Last.key].kind = "set"
   /\ w[Last.key].deadline <= Last.at) => Last.outcome = "KeyError"

\* C4: a key set with no TTL is in the store with its value, and get(K)
\* returns that value, at every time and after every sweep, as long as it
\* is neither deleted nor overwritten.
C4_NeverExpire ==
  /\ \A k \in Keys :
       (w[k].kind = "set" /\ w[k].deadline = Inf)
         => (k \in DOMAIN data /\ data[k] = w[k].value)
  /\ (/\ Last.name = "getitem"
      /\ w[Last.key].kind = "set"
      /\ w[Last.key].deadline = Inf)
       => (Last.outcome = "ok" /\ Last.value = w[Last.key].value)

\* A get returned the value of a never-expiring key at the last time of the
\* model, after a sweep had removed another key.
C4_Witness ==
  /\ Last.name = "getitem" /\ Last.outcome = "ok" /\ Last.at = MaxTime
  /\ w[Last.key].kind = "set" /\ w[Last.key].deadline = Inf
  /\ reaped # {}

\* C5: after set(K, V1, ttl1) followed before its expiry by set(K, V2, ttl2),
\* the entry expires by the second write only: a get(K) before the second
\* deadline (any get, with ttl2 none) returns V2, a get(K) at or after it
\* raises KeyError.
C5_OverwriteResetsDeadline ==
  (/\ Last.name = "getitem"
   /\ w[Last.key].kind = "set"
   /\ w[Last.key].over = "live")
    => IF Last.at < w[Last.key].deadline
       THEN Last.outcome = "ok" /\ Last.value = w[Last.key].value
       ELSE Last.outcome = "KeyError"

\* The half of C5 the code keeps: the superseded deadline never removes the
\* entry; it is there with V2 as long as the second deadline has not come.
C5_NoPrematureExpiry ==
  /\ \A k \in Keys :
       (w[k].kind = "set" /\ w[k].over = "live" /\ now < w[k].deadline)
         => (k \in DOMAIN data /\ data[k] = w[k].value)
  /\ (/\ Last.name = "getitem"
      /\ w[Last.key].kind = "set"
      /\ w[Last.key].over = "live"
      /\ Last.at < w[Last.key].deadline)
       => (Last.outcome = "ok" /\ Last.value = w[Last.key].value)

\* C6: delete(K) of a key in the store removes K from the store and every
\* pair of K from the list, and a get(K) after it raises KeyError; delete(K)
\* of a key not in the store raises KeyError and changes neither.
C6_Delete ==
  [][/\ \A k \in Keys :
          (nwrites' # nwrites /\ ret'[Caller].name = "delitem"
             /\ ret'[Caller].key = k)
            => IF k \in DOMAIN data
               THEN /\ ret'[Caller].outcome = "ok"
                    /\ data' = DelKey(data, k)
                    /\ expiry_times' = WithoutKey(expiry_times, k)
                    /\ ~HasPair(k)'
               ELSE /\ ret'[Caller].outcome = "KeyError"
                    /\ data' = data
                    /\ expiry_times' = expiry_times
     /\ \A k \in Keys :
          w'[k].kind = "deleted" => (k \notin DOMAIN data' /\ ~HasPair(k)')
     /\ (ret'[Caller].name = "getitem" /\ w'[ret'[Caller].key].kind = "deleted")
          => ret'[Caller].outcome = "KeyError"]_vars

\* A get of a deleted key raised KeyError.
C6_Witness ==
  /\ Last.name = "getitem" /\ Last.outcome = "KeyError"
  /\ w[Last.key].kind = "deleted"

\* C10: len() is the number of keys set and neither deleted nor expired: N
\* after sets of N distinct keys, unchanged by setting a key again, and,
\* once entries have expired and a sweep has run, the number of the others.
C10_LengthAccounting ==
  /\ Last.name = "len" => Last.value = Num(Last.live)
  /\ swept => Answer(QueryCall("len")) = Num(Cardinality(Unexpired))

\* The half of C10 the code keeps: the count of the keys set and neither
\* deleted nor removed by a sweep.
C10_CountsStore ==
  /\ Last.name = "len" => Last.value = Num(Last.live)
  /\ DOMAIN data = {k \in AllKeys : w[k].kind = "set" /\ k \notin reaped}

(***************************************************************************)
(* Properties under SpecArgs.                                              *)
(***************************************************************************)

\* C3: after set(K, V) with the TTL none or left out, or set(K, V, ttl)
\* whose deadline has not come, and no set or delete of K since, get(K)
\* returns exactly V, whatever the shape of V.
C3_WriteThenRead ==
  (/\ Last.name = "getitem"
   /\ w[Last.key].kind = "set"
   /\ Last.at < w[Last.key].deadline)
    => (Last.outcome = "ok" /\ Last.value = w[Last.key].value)

(***************************************************************************)
(* Properties under SpecLive.                                              *)
(***************************************************************************)
HasFiniteTtl(k) == w[k].kind = "set" /\ w[k].deadline # Inf

\* C2: with no reads at all, a key written with a finite TTL and not written
\* again is eventually out of the store, whatever was set and deleted
\* before, if time keeps advancing and the daemon keeps running.
C2_EventualReclamation ==
  \A k \in Keys : HasFiniteTtl(k) ~> (k \notin DOMAIN data \/ ~HasFiniteTtl(k))

(***************************************************************************)
(* Properties under SpecWorkers.                                           *)
(***************************************************************************)

\* C7: in the runs of set(K, V, 5); d[K]; del d[K], on keys of the worker's
\* own or shared, no call of any worker raises.
C7_NoWorkerError ==
  \A t \in Workers : prog[t].read = "getitem" => ret[t].outcome = "ok"

\* The part of C7 the code keeps: no call raises when every worker has a
\* key of its own.
C7_OwnKeys ==
  \A t \in Workers : prog[t].keys = "own" => ret[t].outcome = "ok"

\* C9: once every worker has finished, by the end of its rounds or by its
\* first exception, len() is 0.
C9_FinalLength ==
  AllFinished => Answer(QueryCall("len")) = Num(0)

\* The workers that read by get(key, None) have all run to the end, a sweep
\* having removed an entry before its worker could delete it.
C9_Witness ==
  /\ \A t \in Workers : pc[t] = "idle" /\ prog[t].step = "done"
  /\ prog[1].read = "get"
  /\ reaped # {}
  /\ DOMAIN data = {}

(***************************************************************************)
(* Properties under SpecThreadsFair.                                       *)
(***************************************************************************)

\* C8: every call of a public method by any thread returns, the lock
\* released, and the daemon gets through every sweep it has begun, under
\* every interleaving.
C8_NoDeadlock ==
  /\ \A t \in Workers :
       (pc[t] # "idle") ~> (pc[t] = "idle" /\ lock.owner # t)
  /\ (pc[Reaper] \in {"acquire", "clean"}) ~> (pc[Reaper] = "sleep")

\* A worker holds the lock twice, inside the sweep of get or d[key], while
\* another worker waits for it.
C8_Witness ==
  \E t \in Workers :
    /\ lock = [owner |-> t, count |-> 2]
    /\ \E u \in Workers \ {t} : pc[u] = "acquire"

(***************************************************************************)
(* SpecKeys: keys of two types.  The caller uses the int keys 1..NumArgKeys*)
(* and a str key, which are all hashable but do not compare with "<"       *)
(* across the types; heapq compares the keys of two pairs whose            *)
(* expiry_time is equal.  Each call is one step; an exception that leaves  *)
(* _clean_expired_unsafe inside the daemon's loop ends the daemon thread.  *)
(***************************************************************************)
MixedKeys == {OtherKey} \cup ArgKeys

\* One round of the daemon's loop, as ReaperSweep, the thread ending when
\* the sweep raises.
ReaperRound ==
  /\ pc[Reaper] = "loop"
  /\ ~stop_thread
  /\ CanAcquire(Reaper)
  /\ SweepEffect
  /\ pc' = [pc EXCEPT ![Reaper] = IF Swept.err THEN "dead" ELSE "loop"]
  /\ UNCHANGED <<lock, call, stop_thread, now, ret, nwrites, prog>>

NextKeys ==
  \/ /\ nwrites < MaxKeyWrites
     /\ \E key \in MixedKeys : SetItem(key, Fresh(key), None, "bare")
  \/ /\ nwrites < MaxKeyWrites
     /\ \E key \in MixedKeys, n \in 1..MaxTtl :
          SetItem(key, Fresh(key), Num(n), "pair")
  \/ /\ nwrites < MaxKeyWrites
     /\ \E key \in MixedKeys : DelItem(key)
  \/ \E key \in MixedKeys : GetItem(key)
  \/ \E key \in MixedKeys, default \in Defaults : Get(key, default)
  \/ \E key \in MixedKeys : Contains(key)
  \/ ReaperRound
  \/ Tick

SpecKeys == Init /\ [][NextKeys]_vars

(***************************************************************************)
(* Properties under SpecKeys.                                              *)
(***************************************************************************)
Pairs(heap) == {heap[i] : i \in 1..Len(heap)}

\* C11: get(K, d) never raises; it returns the value stored under K when K
\* is in the store after the inline sweep and d (a default, not a stored
\* value) when it is not, and it adds no key to the store and no pair to
\* the list.
C11_GetNeverFails ==
  [][(/\ ret'[Caller].name = "get"
      /\ \/ ret[Caller].name # "get"
         \/ <<ret'[Caller].key, ret'[Caller].outcome, ret'[Caller].at>>
              # <<ret[Caller].key, ret[Caller].outcome, ret[Caller].at>>
         \/ ret'[Caller].value # ret[Caller].value)
       => /\ ret'[Caller].outcome = "ok"
          /\ IF ret'[Caller].key \in DOMAIN data'
             THEN ret'[Caller].value = data'[ret'[Caller].key]
             ELSE ret'[Caller].value \in Defaults
          /\ DOMAIN data' \subseteq DOMAIN data
          /\ Pairs(expiry_times') \subseteq Pairs(expiry_times)]_vars

\* C12: set(K, V, ttl) with any hashable key, the TTL left out or not
\* negative, completes without an exception in every state, and leaves K
\* mapped to V in the store with a pair of K and its expiry time in the
\* list.
C12_SetAlwaysSucceeds ==
  [][(nwrites' # nwrites /\ ret'[Caller].name = "set")
       => /\ ret'[Caller].outcome = "ok"
          /\ ret'[Caller].key \in DOMAIN data'
          /\ data'[ret'[Caller].key] = w'[ret'[Caller].key].value
          /\ <<w'[ret'[Caller].key].expiry_time, ret'[Caller].key>>
               \in Pairs(expiry_times')]_vars

(***************************************************************************)
(* SpecTtl: as SpecArgs, the caller also giving a negative TTL.            *)
(***************************************************************************)
NegativeTtls == {Num(-1)}

NextTtl ==
  \/ NextArgs
  \/ /\ nwrites < MaxArgWrites
     /\ \E key \in ArgKeys, V \in Strings, ttl \in NegativeTtls :
          SetItem(key, V, ttl, "pair")

SpecTtl == Init /\ [][NextTtl]_vars

\* C13: set(K, V, ttl) with a negative ttl raises and changes neither the
\* store nor the list: no set that completes without an exception was
\* given a negative ttl (a deadline before the time of the call).
C13_NegativeTtlRejected ==
  [][(/\ nwrites' # nwrites
      /\ ret'[Caller].name = "set"
      /\ ret'[Caller].outcome = "ok")
       => w'[ret'[Caller].key].deadline >= now]_vars

(***************************************************************************)
(* SpecTeardown: SpecThreads with __del__, run by any worker thread: it    *)
(* sets the stop flag and joins the daemon thread.  The object is gone     *)
(* for the thread that ran it.                                             *)
(***************************************************************************)

\* self._stop_thread = True
TeardownBegin(t) ==
  /\ pc[t] = "idle"
  /\ stop_thread' = TRUE
  /\ pc' = [pc EXCEPT ![t] = "join"]
  /\ UNCHANGED <<dictVars, histVars, swept, lock, now, call, ret, nwrites,
                 prog>>

\* self.collect_thread.join() returns once the daemon thread has ended.
TeardownJoin(t) ==
  /\ pc[t] = "join"
  /\ pc[Reaper] \in {"exit", "dead"}
  /\ pc' = [pc EXCEPT ![t] = "done"]
  /\ UNCHANGED <<dictVars, histVars, swept, lock, stop_thread, now, call, ret,
                 nwrites, prog>>

NextTeardown ==
  \/ \E t \in Workers : ThreadCall(t)
  \/ \E t \in Workers : WorkerThread(t)
  \/ \E t \in Workers : TeardownBegin(t)
  \/ \E t \in Workers : TeardownJoin(t)
  \/ ReaperThread
  \/ Tick

SpecTeardown == Init /\ [][NextTeardown]_vars

\* Fair scheduling, as in SpecThreadsFair.
SpecTeardownFair ==
  /\ SpecTeardown
  /\ \A t \in Threads : SF_vars(Acquire(t))
  /\ \A t \in Threads : WF_vars(AcquireNested(t))
  /\ \A t \in Workers : WF_vars(Locked(t))
  /\ WF_vars(ReaperLoop) /\ WF_vars(ReaperLocked) /\ WF_vars(ReaperWake)

InSweepRound == pc[Reaper] \in {"acquire", "clean", "locked"}
ReaperEnded == pc[Reaper] \in {"exit", "dead"}
TornDown == \E t \in Workers : pc[t] = "done"

\* C14: once teardown has set the stop flag, the daemon thread eventually
\* leaves its loop; with the flag set it starts no sweep round except the one
\* it had already passed the loop test for; teardown returns only when the
\* daemon thread has ended, and the daemon thread does nothing after that.
C14_TeardownStopsReaper ==
  /\ stop_thread ~> pc[Reaper] = "exit"
  /\ [][(stop_thread /\ ~InSweepRound) => ~InSweepRound']_vars
  /\ [](TornDown => ReaperEnded)
  /\ [][TornDown => pc'[Reaper] = pc[Reaper]]_vars

\* Teardown has returned: the flag is set and the daemon thread has left its
\* loop.
C14_Witness ==
  /\ TornDown
  /\ stop_thread
  /\ pc[Reaper] = "exit"

(***************************************************************************)
(* Properties of the calls that only look at the store, under SpecArgs.    *)
(***************************************************************************)
QueryNames == {"contains", "len", "keys", "values", "items"}

\* The step left a new result of the call named name to the caller.
NewResult(name) ==
  /\ ret'[Caller].name = name
  /\ \/ ret[Caller].name # name
     \/ <<ret'[Caller].key, ret'[Caller].at>> # <<ret[Caller].key, ret[Caller].at>>
     \/ ret'[Caller].value # ret[Caller].value

\* C15: contains, len, keys, values and items run no sweep and change
\* neither the store nor the list; they answer from the store as it is, a
\* key past its deadline and not yet swept included, and keys, values and
\* items give the keys and the pairing of the store at the call.
C15_QueriesReadOnly ==
  [][\A name \in QueryNames :
       NewResult(name) =>
         /\ data' = data
         /\ expiry_times' = expiry_times
         /\ reaped' = reaped
         /\ ret'[Caller].outcome = "ok"
         /\ CASE name = "contains" ->
                   ret'[Caller].value = Bool(ret'[Caller].key \in DOMAIN data)
              [] name = "len" ->
                   ret'[Caller].value = Num(Cardinality(DOMAIN data))
              [] name = "keys" ->
                   DOMAIN ret'[Caller].value.counts = DOMAIN data
              [] name = "values" ->
                   DOMAIN ret'[Caller].value.counts = {data[k] : k \in DOMAIN data}
              [] name = "items" ->
                   DOMAIN ret'[Caller].value.counts
                     = {<<k, data[k]>> : k \in DOMAIN data}]_vars

\* contains has just answered True for a key whose deadline has passed.
C15_Witness ==
  /\ Last.name = "contains"
  /\ Last.value = Bool(TRUE)
  /\ Last.at = now
  /\ w[Last.key].kind = "set"
  /\ w[Last.key].deadline <= now
  /\ Last.key \in DOMAIN data

(***************************************************************************)
(* Properties of the sweep and the list, under Spec.                       *)
(***************************************************************************)

\* C16: right after a sweep, inline or by the daemon, no key in the store
\* has the deadline of its last write at or before the time the sweep read.
C16_SweepRemovesAllExpired ==
  swept => \A k \in DOMAIN data : w[k].kind = "set" /\ now < w[k].deadline

\* The expiry times of the list are in binary-heap order: no pair has an
\* earlier expiry time than its parent (the pair at half its index).
HeapOrdered(heap) ==
  \A i \in 2..Len(heap) : heap[i \div 2][1] <= heap[i][1]

\* C17: whenever the lock is free, the list is in heap order: its first pair
\* has the smallest expiry time of all its pairs, so that when the first
\* pair is in the future no pair of the list has expired.
C17_HeapOrder ==
  lock = Free =>
    /\ HeapOrdered(expiry_times)
    /\ \A i \in 1..Len(expiry_times) :
         expiry_times[1][1] <= expiry_times[i][1]
    /\ (expiry_times # <<>> /\ expiry_times[1][1] > now)
         => \A i \in 1..Len(expiry_times) : expiry_times[i][1] > now

\* C18: a sweep, inline or by the daemon, never removes a key whose
\* deadline, as its last write set it, is later than the time the sweep
\* reads: a key leaves the store only by its delete or at or after its
\* deadline, whatever pairs superseded writes and deletes had left.
C18_NoPrematureExpiry ==
  [][\A k \in AllKeys :
       (k \in DOMAIN data /\ k \notin DOMAIN data')
         => /\ w[k].kind = "set"
            /\ \/ w'[k].kind = "deleted"
               \/ w'[k] = w[k] /\ w[k].deadline <= now /\ k \in reaped']_vars

\* A sweep has just removed a key at its deadline and left in the store a
\* key written over an entry whose earlier deadline has passed by now.
C18_Witness ==
  /\ swept
  /\ reaped # {}
  /\ \E k \in DOMAIN data :
       /\ w[k].kind = "set"
       /\ w[k].over = "live"
       /\ now < w[k].deadline
       /\ now > 0

\* C19: whenever the lock is free, the list holds exactly one pair for each
\* key of the store, with the deadline of the key's last write, and no pair
\* of a key that is not in the store.
C19_ExactCorrespondence ==
  lock = Free =>
    /\ Len(expiry_times) = Cardinality(DOMAIN data)
    /\ \A k \in DOMAIN data :
         w[k].kind = "set" /\ <<w[k].deadline, k>> \in Pairs(expiry_times)
    /\ \A p \in Pairs(expiry_times) : p[2] \in DOMAIN data

(***************************************************************************)
(* SpecZero: a TTL of zero.  The caller stores a string under the keys of  *)
(* ZeroKeys with no TTL or with a TTL of 0, and reads back the key it has  *)
(* just set with d[key] or d.get(key, default), beside the daemon thread.  *)
(***************************************************************************)
NextZero ==
  \/ /\ nwrites < MaxZeroWrites
     /\ \E key \in ZeroKeys : SetItem(key, Str("value1"), None, "bare")
  \/ /\ nwrites < MaxZeroWrites
     /\ \E key \in ZeroKeys : SetItem(key, Str("value1"), Num(0), "pair")
  \/ Last.name = "set" /\ GetItem(Last.key)
  \/ Last.name = "set" /\ Get(Last.key, Str("default"))
  \/ ReaperRound
  \/ now < MaxZeroTime /\ Tick

SpecZero == Init /\ [][NextZero]_vars

\* C20: an entry is expired when its deadline is at or before now: after a
\* set(K, V, ttl) with ttl = 0 that succeeded, the caller's next read of K,
\* at the same time or later, raises KeyError (d[K]) or returns the default
\* (d.get(K, default)).
C20_ZeroTtl ==
  [][(/\ ret[Caller].name = "set"
      /\ ret[Caller].outcome = "ok"
      /\ w[ret[Caller].key].kind = "set"
      /\ w[ret[Caller].key].deadline = ret[Caller].at
      /\ ret'[Caller].name \in {"getitem", "get"}
      /\ ret'[Caller].key = ret[Caller].key)
       => IF ret'[Caller].name = "getitem"
          THEN ret'[Caller].outcome = "KeyError"
          ELSE ret'[Caller].outcome = "ok" /\ ret'[Caller].value \in Defaults]_vars

====
